---- MODULE Spec2Model ----
(***************************************************************************)
(* A model of the RustyTwisty cube data model: the colour / sticker /      *)
(* cubie types of src/cube/cubie.rs, the cubie! macro of                   *)
(* src/cube/macros.rs and the Cube storage with its index tables and view  *)
(* accessors of src/cube/cube.rs.                                          *)
(*                                                                         *)
(* The program is a library of pure constructors and accessors.  A state   *)
(* of the model is one constructed Cube together with the last call a      *)
(* client made on the library: its name (op), its input (arg) and what it  *)
(* returned (ret); op is "idle" between calls.  A reference                *)
(* &self.elements[i] is modelled by the storage position i it points at.   *)
(* A Rust array or Vec indexed from 0 is                                   *)
(* a function on 0..n-1; a sticker sequence (StaticVec / Vec of Face) is a *)
(* TLA+ sequence, so that Rust's v[0] is v[1] here.                        *)
(***************************************************************************)
EXTENDS Integers, Sequences, FiniteSets, TLC

VARIABLES elements, op, arg, ret

vars == <<elements, op, arg, ret>>

(* ------------------------------ bounds -------------------------------- *)

\* longest Vec<Face> handed to new_from_vec / new_boxed_from_vec
MaxVecLen == 4

\* largest raw index handed to corner_raw / row_raw / column_raw
MaxRawPos == 10

(* ----------------------------- helpers -------------------------------- *)

Min(a, b) == IF a < b THEN a ELSE b

\* a Rust array literal [x0, x1, ...]: indexed from 0
Array(t) == [i \in 0..(Len(t) - 1) |-> t[i + 1]]

\* Option<T>
None == <<>>
Some(x) == <<x>>

\* the outcome of a call that may panic
Ok(v) == [ok |-> TRUE, val |-> v]
Panic(msg) == [ok |-> FALSE, msg |-> msg]

(* ------------------------- cubie.rs: Color ---------------------------- *)

Color == {"Blue", "Green", "Orange", "Red", "White", "Yellow", "Uninit"}

Color_new == "Uninit"

\* a slip in the table: Yellow is sent to Yellow
Color_opposite_color_from_color_yellow_slip(color) ==
    CASE color = "Blue" -> "Green"
      [] color = "Green" -> "Blue"
      [] color = "Orange" -> "Red"
      [] color = "Red" -> "Orange"
      [] color = "White" -> "Yellow"
      [] color = "Yellow" -> "Yellow"
      [] color = "Uninit" -> "Uninit"

Color_opposite_color_from_color(color) ==
    CASE color = "Blue" -> "Green"
      [] color = "Green" -> "Blue"
      [] color = "Orange" -> "Red"
      [] color = "Red" -> "Orange"
      [] color = "White" -> "Yellow"
      [] color = "Yellow" -> "White"
      [] color = "Uninit" -> "Uninit"

Color_opposite_color(self) == Color_opposite_color_from_color(self)

(* -------------------------- cubie.rs: Face ---------------------------- *)

Face_new == [color |-> Color_new]

Face_new_from_cubie_color(color) == [color |-> color]

Face_eq(self, other) == self.color = other.color

Face_opposite_color(self) == Color_opposite_color(self.color)

\* every sticker value a client can build
FaceValues == {Face_new_from_cubie_color(c) : c \in Color}

(* ------------------- staticvec / Vec as the code uses them ------------ *)

\* staticvec![x; n]
staticvec(x, n) == [i \in 1..n |-> x]

\* Vec::truncate(n)
Vec_truncate(v, n) == IF Len(v) > n THEN SubSeq(v, 1, n) ELSE v

\* StaticVec::<T, N>::from(Vec<T>): the first min(len, N) elements
StaticVec_from(v, N) == [i \in 1..Min(Len(v), N) |-> v[i]]

\* StaticVec::<T, N>::new_from_array / new_from_const_array
StaticVec_new_from_array(arr, N) == [i \in 1..Min(Len(arr), N) |-> arr[i]]

(* ------------------------- cubie.rs: Center --------------------------- *)

Center_new == [kind |-> "Center", faces |-> staticvec(Face_new, 1)]

Center_new_boxed == [kind |-> "Center", faces |-> staticvec(Face_new, 1)]

Center_new_from_array(arr) ==
    [kind |-> "Center", faces |-> StaticVec_new_from_array(arr, 1)]

Center_new_boxed_from_array(arr) ==
    [kind |-> "Center", faces |-> StaticVec_new_from_array(arr, 1)]

\* the empty-input branch left out
Center_new_from_vec_no_empty_branch(vec) ==
    LET v == Vec_truncate(vec, 1)
    IN  [kind |-> "Center", faces |-> StaticVec_from(v, 1)]

Center_new_from_vec(vec) ==
    IF Len(vec) = 0
    THEN Center_new
    ELSE LET v == Vec_truncate(vec, 1)
         IN  [kind |-> "Center", faces |-> StaticVec_from(v, 1)]

Center_new_boxed_from_vec(vec) ==
    IF Len(vec) = 0
    THEN Center_new
    ELSE LET v == Vec_truncate(vec, 1)
         IN  [kind |-> "Center", faces |-> StaticVec_from(v, 1)]

Center_faces(self) == self.faces

(* ------------------------- cubie.rs: Corner --------------------------- *)

Corner_new == [kind |-> "Corner", faces |-> staticvec(Face_new, 3)]

Corner_new_boxed == [kind |-> "Corner", faces |-> staticvec(Face_new, 3)]

\* the array stored back to front
Corner_new_from_array_reversed(arr) ==
    [kind |-> "Corner",
     faces |-> [i \in 1..Min(Len(arr), 3) |-> arr[Len(arr) + 1 - i]]]

Corner_new_from_array(arr) ==
    [kind |-> "Corner", faces |-> StaticVec_new_from_array(arr, 3)]

Corner_new_boxed_from_array(arr) ==
    [kind |-> "Corner", faces |-> StaticVec_new_from_array(arr, 3)]

Corner_new_from_vec(vec) ==
    LET l == Len(vec)
    IN  IF l = 0
        THEN Corner_new
        ELSE IF (l > 0) /\ (l < 3)
        THEN [kind |-> "Corner", faces |-> staticvec(vec[1], 3)]
        ELSE LET v == Vec_truncate(vec, 1)
             IN  [kind |-> "Corner", faces |-> StaticVec_from(v, 3)]

\* a short input padded with default stickers instead of replicated
Corner_new_boxed_from_vec_padded(vec) ==
    LET l == Len(vec)
    IN  IF l = 0
        THEN Corner_new
        ELSE IF (l > 0) /\ (l < 3)
        THEN [kind |-> "Corner",
              faces |-> [i \in 1..3 |-> IF i <= l THEN vec[i] ELSE Face_new]]
        ELSE LET v == Vec_truncate(vec, 3)
             IN  [kind |-> "Corner", faces |-> StaticVec_from(v, 3)]

Corner_new_boxed_from_vec(vec) ==
    LET l == Len(vec)
    IN  IF l = 0
        THEN Corner_new
        ELSE IF (l > 0) /\ (l < 3)
        THEN [kind |-> "Corner", faces |-> staticvec(vec[1], 3)]
        ELSE LET v == Vec_truncate(vec, 3)
             IN  [kind |-> "Corner", faces |-> StaticVec_from(v, 3)]

Corner_faces(self) == self.faces

(* -------------------------- cubie.rs: Edge ---------------------------- *)

Edge_new == [kind |-> "Edge", faces |-> staticvec(Face_new, 2)]

Edge_new_boxed == [kind |-> "Edge", faces |-> staticvec(Face_new, 2)]

Edge_new_from_array(arr) ==
    [kind |-> "Edge", faces |-> StaticVec_new_from_array(arr, 2)]

Edge_new_boxed_from_array(arr) ==
    [kind |-> "Edge", faces |-> StaticVec_new_from_array(arr, 2)]

Edge_new_from_vec(vec) ==
    LET l == Len(vec)
    IN  IF l = 0
        THEN Edge_new
        ELSE IF (l > 0) /\ (l < 2)
        THEN [kind |-> "Edge", faces |-> staticvec(vec[1], 2)]
        ELSE LET v == Vec_truncate(vec, 1)
             IN  [kind |-> "Edge", faces |-> StaticVec_from(v, 2)]

Edge_new_boxed_from_vec(vec) ==
    LET l == Len(vec)
    IN  IF l = 0
        THEN Edge_new
        ELSE IF (l > 0) /\ (l < 2)
        THEN [kind |-> "Edge", faces |-> staticvec(vec[1], 2)]
        ELSE LET v == Vec_truncate(vec, 1)
             IN  [kind |-> "Edge", faces |-> StaticVec_from(v, 2)]

Edge_faces(self) == self.faces

(* ------------------- the three variants, side by side ----------------- *)

Variant == {"Center", "Edge", "Corner"}

\* the N of the variant's StaticVec<Face, N>
Arity(variant) ==
    CASE variant = "Center" -> 1
      [] variant = "Edge" -> 2
      [] variant = "Corner" -> 3

new(variant, boxed) ==
    CASE variant = "Center" -> (IF boxed THEN Center_new_boxed ELSE Center_new)
      [] variant = "Edge" -> (IF boxed THEN Edge_new_boxed ELSE Edge_new)
      [] variant = "Corner" -> (IF boxed THEN Corner_new_boxed ELSE Corner_new)

new_from_array(variant, boxed, arr) ==
    CASE variant = "Center" ->
           (IF boxed THEN Center_new_boxed_from_array(arr)
                     ELSE Center_new_from_array(arr))
      [] variant = "Edge" ->
           (IF boxed THEN Edge_new_boxed_from_array(arr)
                     ELSE Edge_new_from_array(arr))
      [] variant = "Corner" ->
           (IF boxed THEN Corner_new_boxed_from_array(arr)
                     ELSE Corner_new_from_array(arr))

new_from_vec(variant, boxed, vec) ==
    CASE variant = "Center" ->
           (IF boxed THEN Center_new_boxed_from_vec(vec)
                     ELSE Center_new_from_vec(vec))
      [] variant = "Edge" ->
           (IF boxed THEN Edge_new_boxed_from_vec(vec)
                     ELSE Edge_new_from_vec(vec))
      [] variant = "Corner" ->
           (IF boxed THEN Corner_new_boxed_from_vec(vec)
                     ELSE Corner_new_from_vec(vec))

faces(self) ==
    CASE self.kind = "Center" -> Center_faces(self)
      [] self.kind = "Edge" -> Edge_faces(self)
      [] self.kind = "Corner" -> Corner_faces(self)

\* self.as_any().downcast_ref::<T>(): the cubie as a T if T is its concrete
\* type, else nothing
downcast_ref(self, T) == IF self.kind = T THEN Some(self) ELSE None

(* --------------------------- macros.rs -------------------------------- *)

\* the "edge" arm building a Corner
cubie_edge_arm_slip(x) ==
    CASE x = "center" -> Ok(Center_new_boxed)
      [] x = "corner" -> Ok(Corner_new_boxed)
      [] x = "edge" -> Ok(Corner_new_boxed)
      [] OTHER -> Panic("Cubie type not found")

cubie(x) ==
    CASE x = "center" -> Ok(Center_new_boxed)
      [] x = "corner" -> Ok(Corner_new_boxed)
      [] x = "edge" -> Ok(Edge_new_boxed)
      [] OTHER -> Panic("Cubie type not found")

(* --------------------------- cube.rs: views --------------------------- *)

\* Face::new_from_array: the 9 borrowed cubies of one face
CubeFace_new_from_array(arr) == [elements |-> arr]

FaceKind == {"Top", "Left", "Right", "Front", "Back", "Bottom"}

Row_new(left, center, right) ==
    [left |-> left, center |-> center, right |-> right]

Row_has_center(self) == self.center # None

Column_new(top, center, bottom) ==
    [top |-> top, center |-> center, bottom |-> bottom]

\* the enumerations, in declaration order
CornerPosition ==
    <<"TopBackLeft", "TopBackRight", "TopFrontLeft", "TopFrontRight",
      "BottomBackLeft", "BottomBackRight", "BottomFrontLeft",
      "BottomFrontRight">>

ColumnPosition ==
    <<"BackLeft", "BackMiddle", "BackRight", "MiddleLeft", "MiddleCenter",
      "MiddleRight", "FrontLeft", "FrontMiddle", "FrontRight">>

RowPosition ==
    <<"TopBack", "TopCenter", "TopFront", "MiddleBack", "MiddleCenter",
      "MiddleFront", "BottomBack", "BottomCenter", "BottomFront">>

\* the ordinal of a value of an enumeration, counted from 0
Ordinal(enum, x) == CHOOSE k \in 0..(Len(enum) - 1) : enum[k + 1] = x

Range(seq) == {seq[i] : i \in 1..Len(seq)}

(* --------------------------- cube.rs: Cube ---------------------------- *)

\* &self.elements[i]: a reference into the storage, i.e. the position i
\* (indexing outside the storage has no value)
ElementRef(self, i) == CHOOSE j \in DOMAIN self.elements : j = i

\* initialize_cube_face!(o, x)
initialize_cube_face(o, x) ==
    CubeFace_new_from_array(
        Array(<<ElementRef(o, x[0]), ElementRef(o, x[1]), ElementRef(o, x[2]),
                ElementRef(o, x[3]), ElementRef(o, x[4]), ElementRef(o, x[5]),
                ElementRef(o, x[6]), ElementRef(o, x[7]), ElementRef(o, x[8])>>))

\* the array literal of Cube::new, each entry a cubie!(..) call
Cube_new_cubies ==
    Array(<<cubie("corner"), cubie("edge"), cubie("corner"),
            cubie("edge"), cubie("center"), cubie("edge"),
            cubie("corner"), cubie("edge"), cubie("corner"),
            cubie("edge"), cubie("center"), cubie("edge"),
            cubie("center"), cubie("center"),
            cubie("edge"), cubie("center"), cubie("edge"),
            cubie("corner"), cubie("edge"), cubie("corner"),
            cubie("edge"), cubie("corner"), cubie("edge"),
            cubie("corner"), cubie("edge"), cubie("corner")>>)

Cube_new ==
    IF \A i \in DOMAIN Cube_new_cubies : Cube_new_cubies[i].ok
    THEN Ok([elements |-> [i \in DOMAIN Cube_new_cubies |-> Cube_new_cubies[i].val]])
    ELSE Panic("Cubie type not found")

\* the bottom layer taken to start at 18, as in a 27-cell layout
Cube_corner_raw_bottom_shifted(self, pos) ==
    CASE pos = 0 -> Ok(ElementRef(self, 0))
      [] pos = 1 -> Ok(ElementRef(self, 2))
      [] pos = 2 -> Ok(ElementRef(self, 6))
      [] pos = 3 -> Ok(ElementRef(self, 8))
      [] pos = 4 -> Ok(ElementRef(self, 18))
      [] pos = 5 -> Ok(ElementRef(self, 20))
      [] pos = 6 -> Ok(ElementRef(self, 24))
      [] pos = 7 -> Ok(ElementRef(self, 25))
      [] OTHER -> Panic("Exceeded corner count")

\* the last arm left out: 7 falls through to the panic
Cube_corner_raw_seven_arms(self, pos) ==
    CASE pos = 0 -> Ok(ElementRef(self, 0))
      [] pos = 1 -> Ok(ElementRef(self, 2))
      [] pos = 2 -> Ok(ElementRef(self, 6))
      [] pos = 3 -> Ok(ElementRef(self, 8))
      [] pos = 4 -> Ok(ElementRef(self, 17))
      [] pos = 5 -> Ok(ElementRef(self, 19))
      [] pos = 6 -> Ok(ElementRef(self, 23))
      [] OTHER -> Panic("Exceeded corner count")

Cube_corner_raw(self, pos) ==
    CASE pos = 0 -> Ok(ElementRef(self, 0))
      [] pos = 1 -> Ok(ElementRef(self, 2))
      [] pos = 2 -> Ok(ElementRef(self, 6))
      [] pos = 3 -> Ok(ElementRef(self, 8))
      [] pos = 4 -> Ok(ElementRef(self, 17))
      [] pos = 5 -> Ok(ElementRef(self, 19))
      [] pos = 6 -> Ok(ElementRef(self, 23))
      [] pos = 7 -> Ok(ElementRef(self, 25))
      [] OTHER -> Panic("Exceeded corner count")

\* the arms for TopBackRight and TopFrontLeft exchanged
Cube_corner_arms_exchanged(self, pos) ==
    CASE pos = "TopBackLeft" -> Cube_corner_raw(self, 0)
      [] pos = "TopBackRight" -> Cube_corner_raw(self, 2)
      [] pos = "TopFrontLeft" -> Cube_corner_raw(self, 1)
      [] pos = "TopFrontRight" -> Cube_corner_raw(self, 3)
      [] pos = "BottomBackLeft" -> Cube_corner_raw(self, 4)
      [] pos = "BottomBackRight" -> Cube_corner_raw(self, 5)
      [] pos = "BottomFrontLeft" -> Cube_corner_raw(self, 6)
      [] pos = "BottomFrontRight" -> Cube_corner_raw(self, 7)

Cube_corner(self, pos) ==
    CASE pos = "TopBackLeft" -> Cube_corner_raw(self, 0)
      [] pos = "TopBackRight" -> Cube_corner_raw(self, 1)
      [] pos = "TopFrontLeft" -> Cube_corner_raw(self, 2)
      [] pos = "TopFrontRight" -> Cube_corner_raw(self, 3)
      [] pos = "BottomBackLeft" -> Cube_corner_raw(self, 4)
      [] pos = "BottomBackRight" -> Cube_corner_raw(self, 5)
      [] pos = "BottomFrontLeft" -> Cube_corner_raw(self, 6)
      [] pos = "BottomFrontRight" -> Cube_corner_raw(self, 7)

\* an array literal whose entries are calls: it panics if any call does
ArrayOfCalls(calls) ==
    IF \A i \in DOMAIN calls : calls[i].ok
    THEN Ok([i \in DOMAIN calls |-> calls[i].val])
    ELSE CHOOSE r \in {calls[i] : i \in DOMAIN calls} : ~r.ok

Cube_corners(self) ==
    ArrayOfCalls(Array(<<Cube_corner_raw(self, 0), Cube_corner_raw(self, 1),
                         Cube_corner_raw(self, 2), Cube_corner_raw(self, 3),
                         Cube_corner_raw(self, 4), Cube_corner_raw(self, 5),
                         Cube_corner_raw(self, 6), Cube_corner_raw(self, 7)>>))

\* the middle row of the middle layer given a centre cubie
Cube_row_raw_core_as_cubie(self, pos) ==
    CASE pos = 0 -> Ok([left |-> ElementRef(self, 0),
                       center |-> Some(ElementRef(self, 1)),
                       right |-> ElementRef(self, 2)])
      [] pos = 1 -> Ok([left |-> ElementRef(self, 3),
                       center |-> Some(ElementRef(self, 4)),
                       right |-> ElementRef(self, 5)])
      [] pos = 2 -> Ok([left |-> ElementRef(self, 6),
                       center |-> Some(ElementRef(self, 7)),
                       right |-> ElementRef(self, 8)])
      [] pos = 3 -> Ok([left |-> ElementRef(self, 9),
                       center |-> Some(ElementRef(self, 10)),
                       right |-> ElementRef(self, 11)])
      [] pos = 4 -> Ok([left |-> ElementRef(self, 12),
                       center |-> Some(ElementRef(self, 13)),
                       right |-> ElementRef(self, 13)])
      [] pos = 5 -> Ok([left |-> ElementRef(self, 14),
                       center |-> Some(ElementRef(self, 15)),
                       right |-> ElementRef(self, 16)])
      [] pos = 6 -> Ok([left |-> ElementRef(self, 17),
                       center |-> Some(ElementRef(self, 18)),
                       right |-> ElementRef(self, 19)])
      [] pos = 7 -> Ok([left |-> ElementRef(self, 20),
                       center |-> Some(ElementRef(self, 21)),
                       right |-> ElementRef(self, 22)])
      [] pos = 8 -> Ok([left |-> ElementRef(self, 23),
                       center |-> Some(ElementRef(self, 24)),
                       right |-> ElementRef(self, 25)])
      [] OTHER -> Panic("Exceeded row count")

Cube_row_raw(self, pos) ==
    CASE pos = 0 -> Ok([left |-> ElementRef(self, 0),
                       center |-> Some(ElementRef(self, 1)),
                       right |-> ElementRef(self, 2)])
      [] pos = 1 -> Ok([left |-> ElementRef(self, 3),
                       center |-> Some(ElementRef(self, 4)),
                       right |-> ElementRef(self, 5)])
      [] pos = 2 -> Ok([left |-> ElementRef(self, 6),
                       center |-> Some(ElementRef(self, 7)),
                       right |-> ElementRef(self, 8)])
      [] pos = 3 -> Ok([left |-> ElementRef(self, 9),
                       center |-> Some(ElementRef(self, 10)),
                       right |-> ElementRef(self, 11)])
      [] pos = 4 -> Ok([left |-> ElementRef(self, 12),
                       center |-> None,
                       right |-> ElementRef(self, 13)])
      [] pos = 5 -> Ok([left |-> ElementRef(self, 14),
                       center |-> Some(ElementRef(self, 15)),
                       right |-> ElementRef(self, 16)])
      [] pos = 6 -> Ok([left |-> ElementRef(self, 17),
                       center |-> Some(ElementRef(self, 18)),
                       right |-> ElementRef(self, 19)])
      [] pos = 7 -> Ok([left |-> ElementRef(self, 20),
                       center |-> Some(ElementRef(self, 21)),
                       right |-> ElementRef(self, 22)])
      [] pos = 8 -> Ok([left |-> ElementRef(self, 23),
                       center |-> Some(ElementRef(self, 24)),
                       right |-> ElementRef(self, 25)])
      [] OTHER -> Panic("Exceeded row count")

Cube_row(self, pos) ==
    CASE pos = "TopBack" -> Cube_row_raw(self, 0)
      [] pos = "TopCenter" -> Cube_row_raw(self, 1)
      [] pos = "TopFront" -> Cube_row_raw(self, 2)
      [] pos = "MiddleBack" -> Cube_row_raw(self, 3)
      [] pos = "MiddleCenter" -> Cube_row_raw(self, 4)
      [] pos = "MiddleFront" -> Cube_row_raw(self, 5)
      [] pos = "BottomBack" -> Cube_row_raw(self, 6)
      [] pos = "BottomCenter" -> Cube_row_raw(self, 7)
      [] pos = "BottomFront" -> Cube_row_raw(self, 8)

\* the rows of the top layer listed front to back
Cube_rows_top_reversed(self) ==
    ArrayOfCalls(Array(<<Cube_row_raw(self, 2), Cube_row_raw(self, 1),
                         Cube_row_raw(self, 0), Cube_row_raw(self, 3),
                         Cube_row_raw(self, 4), Cube_row_raw(self, 5),
                         Cube_row_raw(self, 6), Cube_row_raw(self, 7),
                         Cube_row_raw(self, 8)>>))

Cube_rows(self) ==
    ArrayOfCalls(Array(<<Cube_row_raw(self, 0), Cube_row_raw(self, 1),
                         Cube_row_raw(self, 2), Cube_row_raw(self, 3),
                         Cube_row_raw(self, 4), Cube_row_raw(self, 5),
                         Cube_row_raw(self, 6), Cube_row_raw(self, 7),
                         Cube_row_raw(self, 8)>>))

Cube_column_raw(self, pos) ==
    CASE pos = 0 -> Ok([top |-> ElementRef(self, 0),
                       center |-> Some(ElementRef(self, 9)),
                       bottom |-> ElementRef(self, 18)])
      [] pos = 1 -> Ok([top |-> ElementRef(self, 1),
                       center |-> Some(ElementRef(self, 10)),
                       bottom |-> ElementRef(self, 19)])
      [] pos = 2 -> Ok([top |-> ElementRef(self, 2),
                       center |-> Some(ElementRef(self, 11)),
                       bottom |-> ElementRef(self, 20)])
      [] pos = 3 -> Ok([top |-> ElementRef(self, 3),
                       center |-> Some(ElementRef(self, 12)),
                       bottom |-> ElementRef(self, 21)])
      [] pos = 4 -> Ok([top |-> ElementRef(self, 4),
                       center |-> None,
                       bottom |-> ElementRef(self, 21)])
      [] pos = 5 -> Ok([top |-> ElementRef(self, 5),
                       center |-> Some(ElementRef(self, 13)),
                       bottom |-> ElementRef(self, 22)])
      [] pos = 6 -> Ok([top |-> ElementRef(self, 6),
                       center |-> Some(ElementRef(self, 14)),
                       bottom |-> ElementRef(self, 23)])
      [] pos = 7 -> Ok([top |-> ElementRef(self, 7),
                       center |-> Some(ElementRef(self, 15)),
                       bottom |-> ElementRef(self, 24)])
      [] pos = 8 -> Ok([top |-> ElementRef(self, 8),
                       center |-> Some(ElementRef(self, 16)),
                       bottom |-> ElementRef(self, 25)])
      [] OTHER -> Panic("Exceeded column count")

Cube_column(self, pos) ==
    CASE pos = "BackLeft" -> Cube_column_raw(self, 0)
      [] pos = "BackMiddle" -> Cube_column_raw(self, 1)
      [] pos = "BackRight" -> Cube_column_raw(self, 2)
      [] pos = "MiddleLeft" -> Cube_column_raw(self, 3)
      [] pos = "MiddleCenter" -> Cube_column_raw(self, 4)
      [] pos = "MiddleRight" -> Cube_column_raw(self, 5)
      [] pos = "FrontLeft" -> Cube_column_raw(self, 6)
      [] pos = "FrontMiddle" -> Cube_column_raw(self, 7)
      [] pos = "FrontRight" -> Cube_column_raw(self, 8)

Cube_columns(self) ==
    ArrayOfCalls(Array(<<Cube_column_raw(self, 0), Cube_column_raw(self, 1),
                         Cube_column_raw(self, 2), Cube_column_raw(self, 3),
                         Cube_column_raw(self, 4), Cube_column_raw(self, 5),
                         Cube_column_raw(self, 6), Cube_column_raw(self, 7),
                         Cube_column_raw(self, 8)>>))

\* the Left table lists 13, the right-hand cell of the middle row, for 12
Cube_face_left_slip(self, s) ==
    CASE s = "Top" ->
           initialize_cube_face(self, Array(<<0, 1, 2, 3, 4, 5, 6, 7, 8>>))
      [] s = "Left" ->
           initialize_cube_face(self, Array(<<0, 3, 6, 9, 13, 14, 17, 20, 23>>))
      [] s = "Right" ->
           initialize_cube_face(self, Array(<<2, 5, 8, 11, 13, 16, 19, 22, 25>>))
      [] s = "Front" ->
           initialize_cube_face(self, Array(<<6, 7, 8, 14, 15, 16, 23, 24, 25>>))
      [] s = "Back" ->
           initialize_cube_face(self, Array(<<0, 1, 2, 9, 10, 11, 17, 18, 19>>))
      [] s = "Bottom" ->
           initialize_cube_face(self, Array(<<17, 18, 19, 20, 21, 22, 23, 24, 25>>))

Cube_face(self, s) ==
    CASE s = "Top" ->
           initialize_cube_face(self, Array(<<0, 1, 2, 3, 4, 5, 6, 7, 8>>))
      [] s = "Left" ->
           initialize_cube_face(self, Array(<<0, 3, 6, 9, 12, 14, 17, 20, 23>>))
      [] s = "Right" ->
           initialize_cube_face(self, Array(<<2, 5, 8, 11, 13, 16, 19, 22, 25>>))
      [] s = "Front" ->
           initialize_cube_face(self, Array(<<6, 7, 8, 14, 15, 16, 23, 24, 25>>))
      [] s = "Back" ->
           initialize_cube_face(self, Array(<<0, 1, 2, 9, 10, 11, 17, 18, 19>>))
      [] s = "Bottom" ->
           initialize_cube_face(self, Array(<<17, 18, 19, 20, 21, 22, 23, 24, 25>>))

(* ------------------------ the client's calls -------------------------- *)

\* every Vec<Face> of at most MaxVecLen stickers
Vecs == UNION {[1..n -> FaceValues] : n \in 0..MaxVecLen}

\* every [Face; N]
Arrays(N) == [1..N -> FaceValues]

CtorOps ==
    {"new", "new_boxed", "new_from_array", "new_boxed_from_array",
     "new_from_vec", "new_boxed_from_vec"}

\* tags handed to cubie!: the three it knows and some it does not
Tags == {"center", "corner", "edge", "core", "Center", ""}

\* the cube the accessors are called on
TheCube == [elements |-> elements]

Init ==
    /\ elements = Cube_new.val.elements
    /\ op = "idle"
    /\ arg = <<>>
    /\ ret = <<>>

CallCubeNew ==
    /\ op = "idle"
    /\ Cube_new.ok
    /\ elements' = Cube_new.val.elements
    /\ op' = "Cube::new"
    /\ arg' = <<>>
    /\ ret' = Cube_new

CallOppositeColor ==
    /\ op = "idle"
    /\ \E c \in Color :
        /\ op' = "Color::opposite_color"
        /\ arg' = c
        /\ ret' = Color_opposite_color(c)
        /\ UNCHANGED elements

CallOppositeColorFromColor ==
    /\ op = "idle"
    /\ \E c \in Color :
        /\ op' = "Color::opposite_color_from_color"
        /\ arg' = c
        /\ ret' = Color_opposite_color_from_color(c)
        /\ UNCHANGED elements

CallFaceOppositeColor ==
    /\ op = "idle"
    /\ \E f \in FaceValues :
        /\ op' = "Face::opposite_color"
        /\ arg' = f
        /\ ret' = Face_opposite_color(f)
        /\ UNCHANGED elements

CallNew ==
    /\ op = "idle"
    /\ \E variant \in Variant, boxed \in BOOLEAN :
        /\ op' = (IF boxed THEN "new_boxed" ELSE "new")
        /\ arg' = [variant |-> variant, input |-> <<>>]
        /\ ret' = new(variant, boxed)
        /\ UNCHANGED elements

CallNewFromArray ==
    /\ op = "idle"
    /\ \E variant \in Variant, boxed \in BOOLEAN :
        \E arr \in Arrays(Arity(variant)) :
            /\ op' = (IF boxed THEN "new_boxed_from_array" ELSE "new_from_array")
            /\ arg' = [variant |-> variant, input |-> arr]
            /\ ret' = new_from_array(variant, boxed, arr)
            /\ UNCHANGED elements

CallNewFromVec ==
    /\ op = "idle"
    /\ \E variant \in Variant, boxed \in BOOLEAN, vec \in Vecs :
        /\ op' = (IF boxed THEN "new_boxed_from_vec" ELSE "new_from_vec")
        /\ arg' = [variant |-> variant, input |-> vec]
        /\ ret' = new_from_vec(variant, boxed, vec)
        /\ UNCHANGED elements

\* faces() on the cubie the previous call constructed; arg records the
\* receiver and how it was made
CallFaces ==
    /\ op \in CtorOps
    /\ op' = "faces"
    /\ arg' = [ctor |-> op, variant |-> arg.variant, input |-> arg.input,
               self |-> ret]
    /\ ret' = faces(ret)
    /\ UNCHANGED elements

CallCubieMacro ==
    /\ op = "idle"
    /\ \E x \in Tags :
        /\ op' = "cubie!"
        /\ arg' = x
        /\ ret' = cubie(x)
        /\ UNCHANGED elements

CallCornerRaw ==
    /\ op = "idle"
    /\ \E pos \in 0..MaxRawPos :
        /\ op' = "corner_raw"
        /\ arg' = pos
        /\ ret' = Cube_corner_raw(TheCube, pos)
        /\ UNCHANGED elements

CallCorner ==
    /\ op = "idle"
    /\ \E pos \in Range(CornerPosition) :
        /\ op' = "corner"
        /\ arg' = pos
        /\ ret' = Cube_corner(TheCube, pos)
        /\ UNCHANGED elements

CallCorners ==
    /\ op = "idle"
    /\ op' = "corners"
    /\ arg' = <<>>
    /\ ret' = Cube_corners(TheCube)
    /\ UNCHANGED elements

CallRowRaw ==
    /\ op = "idle"
    /\ \E pos \in 0..MaxRawPos :
        /\ op' = "row_raw"
        /\ arg' = pos
        /\ ret' = Cube_row_raw(TheCube, pos)
        /\ UNCHANGED elements

CallRow ==
    /\ op = "idle"
    /\ \E pos \in Range(RowPosition) :
        /\ op' = "row"
        /\ arg' = pos
        /\ ret' = Cube_row(TheCube, pos)
        /\ UNCHANGED elements

\* rows() taking the storage by &mut self and exchanging two cubies
CallRows_writing_storage ==
    /\ op = "idle"
    /\ op' = "rows"
    /\ arg' = <<>>
    /\ ret' = Cube_rows(TheCube)
    /\ elements' = [elements EXCEPT ![0] = elements[1], ![1] = elements[0]]

CallRows ==
    /\ op = "idle"
    /\ op' = "rows"
    /\ arg' = <<>>
    /\ ret' = Cube_rows(TheCube)
    /\ UNCHANGED elements

CallColumnRaw ==
    /\ op = "idle"
    /\ \E pos \in 0..MaxRawPos :
        /\ op' = "column_raw"
        /\ arg' = pos
        /\ ret' = Cube_column_raw(TheCube, pos)
        /\ UNCHANGED elements

CallColumn ==
    /\ op = "idle"
    /\ \E pos \in Range(ColumnPosition) :
        /\ op' = "column"
        /\ arg' = pos
        /\ ret' = Cube_column(TheCube, pos)
        /\ UNCHANGED elements

CallColumns ==
    /\ op = "idle"
    /\ op' = "columns"
    /\ arg' = <<>>
    /\ ret' = Cube_columns(TheCube)
    /\ UNCHANGED elements

CallFace ==
    /\ op = "idle"
    /\ \E s \in FaceKind :
        /\ op' = "face"
        /\ arg' = s
        /\ ret' = Cube_face(TheCube, s)
        /\ UNCHANGED elements

\* as_any().downcast_ref::<T>() on the boxed cubie the macro just produced;
\* arg records the tag it was made from
CallDowncastRef ==
    /\ op = "cubie!"
    /\ ret.ok
    /\ \E T \in Variant :
        /\ op' = "downcast_ref"
        /\ arg' = [tag |-> arg, self |-> ret.val, target |-> T]
        /\ ret' = downcast_ref(ret.val, T)
        /\ UNCHANGED elements

\* the client drops the result of its last call
Discard ==
    /\ op # "idle"
    /\ op' = "idle"
    /\ arg' = <<>>
    /\ ret' = <<>>
    /\ UNCHANGED elements

Next ==
    \/ CallCubeNew
    \/ CallOppositeColor
    \/ CallOppositeColorFromColor
    \/ CallFaceOppositeColor
    \/ CallNew
    \/ CallNewFromArray
    \/ CallNewFromVec
    \/ CallFaces
    \/ CallCubieMacro
    \/ CallDowncastRef
    \/ CallCornerRaw
    \/ CallCorner
    \/ CallCorners
    \/ CallRowRaw
    \/ CallRow
    \/ CallRows
    \/ CallColumnRaw
    \/ CallColumn
    \/ CallColumns
    \/ CallFace
    \/ Discard

Spec == Init /\ [][Next]_vars

(* ------------------------------ claims -------------------------------- *)

FromVecOps == {"new_from_vec", "new_boxed_from_vec"}

FromArrayOps == {"new_from_array", "new_boxed_from_array"}

PositionsOfKind(kind) == {i \in DOMAIN elements : elements[i].kind = kind}

\* the documented layout: the layer (0 top, 1 middle, 2 bottom) of a storage
\* position and its raster cell (3 * row + column; row 0 is the back, column
\* 0 the left) within the layer
LayerOf(pos) == IF pos <= 8 THEN 0 ELSE IF pos <= 16 THEN 1 ELSE 2

CellOf(pos) ==
    IF pos <= 8 THEN pos
    ELSE IF pos <= 12 THEN pos - 9
    ELSE IF pos <= 16 THEN pos - 8
    ELSE pos - 17

RowOf(pos) == CellOf(pos) \div 3

ColOf(pos) == CellOf(pos) % 3

\* the middle-layer cell at raster cell k of a layer (k = 3 * row + column);
\* the layer has no cell 4: the mechanical core sits there
MiddleLayerCell(k) == IF k < 4 THEN 9 + k ELSE 8 + k

\* C1: in the cube built by Cube::new(), exactly the storage positions
\* 0,2,6,8,17,19,23,25 hold Corner cubies, exactly 12 positions hold Edge
\* cubies and exactly 6 hold Center cubies.
C1_KindLayout ==
    /\ DOMAIN elements = 0..25
    /\ PositionsOfKind("Corner") = {0, 2, 6, 8, 17, 19, 23, 25}
    /\ Cardinality(PositionsOfKind("Edge")) = 12
    /\ Cardinality(PositionsOfKind("Center")) = 6

\* C2: whatever the variant, the construction path and the length of the
\* input, faces() returns a sticker sequence whose length is the variant's
\* arity.
C2_FacesLenIsArity ==
    op = "faces" => Len(ret) = Arity(arg.variant)

\* C3: new_from_vec and new_boxed_from_vec, given at least N stickers (N the
\* variant's arity), produce a cubie whose stickers are exactly the first N
\* input stickers, in input order.
C3_TruncateToArity ==
    (op \in FromVecOps /\ Len(arg.input) >= Arity(arg.variant))
        => ret.faces = SubSeq(arg.input, 1, Arity(arg.variant))

\* C4: for Edge and Corner, new_from_vec and new_boxed_from_vec given at
\* least 1 and fewer than N stickers produce a cubie with N stickers, every
\* one equal to the first input sticker.
C4_ReplicateFirst ==
    (/\ op \in FromVecOps
     /\ arg.variant \in {"Edge", "Corner"}
     /\ Len(arg.input) >= 1
     /\ Len(arg.input) < Arity(arg.variant))
        => /\ ret.kind = arg.variant
           /\ Len(ret.faces) = Arity(arg.variant)
           /\ \A i \in 1..Arity(arg.variant) : Face_eq(ret.faces[i], arg.input[1])

C4_Witness ==
    /\ op = "new_boxed_from_vec"
    /\ arg.variant = "Corner"
    /\ Len(arg.input) = 2
    /\ arg.input[1].color = "Red"
    /\ arg.input[2].color = "Blue"
    /\ ret.faces = <<[color |-> "Red"], [color |-> "Red"], [color |-> "Red"]>>

\* C5: for every variant, new_from_vec and new_boxed_from_vec of the empty
\* sequence yield the cubie new() yields: as many stickers as the variant's
\* arity, every one of colour Uninit.
C5_EmptyVecIsNew ==
    (op \in FromVecOps /\ Len(arg.input) = 0)
        => /\ ret = new(arg.variant, FALSE)
           /\ ret.kind = arg.variant
           /\ Len(ret.faces) = Arity(arg.variant)
           /\ \A i \in 1..Len(ret.faces) : ret.faces[i].color = "Uninit"

C5_Witness ==
    /\ op = "new_from_vec"
    /\ arg.variant = "Edge"
    /\ arg.input = <<>>
    /\ ret.faces = <<[color |-> "Uninit"], [color |-> "Uninit"]>>

\* C6: round trip: for every variant and every array of exactly arity
\* stickers, new_from_array (or new_boxed_from_array) followed by faces()
\* returns exactly the supplied stickers in the supplied order.
C6_ArrayRoundTrip ==
    (op = "faces" /\ arg.ctor \in FromArrayOps)
        => /\ Len(ret) = Len(arg.input)
           /\ \A i \in 1..Len(ret) : Face_eq(ret[i], arg.input[i])

C6_Witness ==
    /\ op = "faces"
    /\ arg.ctor = "new_from_array"
    /\ arg.variant = "Corner"
    /\ arg.input = <<[color |-> "Red"], [color |-> "Blue"], [color |-> "White"]>>
    /\ ret = <<[color |-> "Red"], [color |-> "Blue"], [color |-> "White"]>>

\* C7: the opposite-colour function is total on the 7 colours, maps Blue to
\* Green, Orange to Red, White to Yellow and Uninit to Uninit, and applying
\* it to its own result gives back the colour it started from; a sticker's
\* opposite_color is the opposite of the sticker's colour.
C7_OppositeColor ==
    /\ op \in {"Color::opposite_color", "Color::opposite_color_from_color"}
        => /\ ret \in Color
           /\ (arg = "Blue" => ret = "Green")
           /\ (arg = "Orange" => ret = "Red")
           /\ (arg = "White" => ret = "Yellow")
           /\ (arg = "Uninit" => ret = "Uninit")
           /\ Color_opposite_color(ret) = arg
    /\ op = "Face::opposite_color"
        => /\ ret \in Color
           /\ ret = Color_opposite_color(arg.color)
           /\ Color_opposite_color(ret) = arg.color

C7_Witness ==
    /\ op = "Color::opposite_color"
    /\ arg = "Green"
    /\ ret = "Blue"

\* C8: of the 9 rows that rows() / row(position) return, the centre slot is
\* absent for exactly the MiddleCenter row and present for the other 8; the
\* same holds of the 9 columns that columns() / column(position) return.
C8_CenterAbsence ==
    /\ op = "rows"
        => /\ ret.ok
           /\ DOMAIN ret.val = 0..8
           /\ \A k \in 0..8 :
                (ret.val[k].center = None) <=> (RowPosition[k + 1] = "MiddleCenter")
    /\ op = "row"
        => /\ ret.ok
           /\ (ret.val.center = None) <=> (arg = "MiddleCenter")
    /\ op = "columns"
        => /\ ret.ok
           /\ DOMAIN ret.val = 0..8
           /\ \A k \in 0..8 :
                (ret.val[k].center = None) <=> (ColumnPosition[k + 1] = "MiddleCenter")
    /\ op = "column"
        => /\ ret.ok
           /\ (ret.val.center = None) <=> (arg = "MiddleCenter")

C8_Witness ==
    /\ op = "rows"
    /\ ret.val[4].center = None
    /\ Cardinality({k \in 0..8 : ret.val[k].center # None}) = 8

\* a column is the vertical line through raster cell k of each layer
IsVerticalLine(column, k) ==
    /\ column.top = k
    /\ column.bottom = 17 + k
    /\ column.center # None => column.center = Some(MiddleLayerCell(k))

\* C9: every column is a vertical line through the three layers: column k
\* (k in 0..8) has top = storage position k, bottom = storage position
\* 17 + k and, when present, centre = the middle-layer cell of the same row
\* and column.
C9_ColumnsVertical ==
    /\ (op = "column_raw" /\ arg \in 0..8)
        => ret.ok /\ IsVerticalLine(ret.val, arg)
    /\ op = "column"
        => ret.ok /\ \A k \in 0..8 :
                        ColumnPosition[k + 1] = arg => IsVerticalLine(ret.val, k)
    /\ op = "columns"
        => ret.ok /\ \A k \in 0..8 : IsVerticalLine(ret.val[k], k)

\* C10: on a freshly constructed cube corners() returns exactly 8 cubies,
\* those at storage positions 0,2,6,8,17,19,23,25 in that order, and each of
\* them has exactly 3 stickers, all Uninit.
C10_Corners ==
    op = "corners"
        => /\ ret.ok
           /\ ret.val = Array(<<0, 2, 6, 8, 17, 19, 23, 25>>)
           /\ \A k \in DOMAIN ret.val :
                /\ Len(faces(elements[ret.val[k]])) = 3
                /\ \A i \in 1..3 : faces(elements[ret.val[k]])[i].color = "Uninit"

C10_Witness ==
    /\ op = "corners"
    /\ ret.ok
    /\ ret.val[0] = 0
    /\ ret.val[7] = 25
    /\ elements[ret.val[7]].kind = "Corner"
    /\ Len(elements[ret.val[7]].faces) = 3

\* the face tables that list storage position pos
FacesContaining(pos) ==
    {s \in FaceKind : \E i \in 0..8 : Cube_face(TheCube, s).elements[i] = pos}

\* the three faces a corner position is named after
NamedFaces(p) ==
    CASE p = "TopBackLeft" -> {"Top", "Back", "Left"}
      [] p = "TopBackRight" -> {"Top", "Back", "Right"}
      [] p = "TopFrontLeft" -> {"Top", "Front", "Left"}
      [] p = "TopFrontRight" -> {"Top", "Front", "Right"}
      [] p = "BottomBackLeft" -> {"Bottom", "Back", "Left"}
      [] p = "BottomBackRight" -> {"Bottom", "Back", "Right"}
      [] p = "BottomFrontLeft" -> {"Bottom", "Front", "Left"}
      [] p = "BottomFrontRight" -> {"Bottom", "Front", "Right"}

\* C11: for each of the 8 named corner positions p, corner(p) returns the
\* storage position corners() holds at p's ordinal, and that position is
\* listed by exactly the three face tables p is named after.
C11_NamedCorners ==
    op = "corner"
        => /\ ret.ok
           /\ Cube_corners(TheCube).ok
           /\ ret.val = Cube_corners(TheCube).val[Ordinal(CornerPosition, arg)]
           /\ FacesContaining(ret.val) = NamedFaces(arg)

C11_Witness ==
    /\ op = "corner"
    /\ arg = "BottomFrontLeft"
    /\ ret.ok
    /\ ret.val = 23
    /\ FacesContaining(23) = {"Bottom", "Front", "Left"}

\* storage position pos lies on the outer plane of face s
OnPlane(s, pos) ==
    CASE s = "Top" -> LayerOf(pos) = 0
      [] s = "Bottom" -> LayerOf(pos) = 2
      [] s = "Back" -> RowOf(pos) = 0
      [] s = "Front" -> RowOf(pos) = 2
      [] s = "Left" -> ColOf(pos) = 0
      [] s = "Right" -> ColOf(pos) = 2

\* C12: face(kind) returns exactly 9 distinct storage positions, those whose
\* (layer, row, column) in the documented layout lies on that outer plane,
\* in ascending storage order; face(Top).elements[i] is storage element i.
C12_FacePlanes ==
    op = "face"
        => /\ DOMAIN ret.elements = 0..8
           /\ \A i \in 0..7 : ret.elements[i] < ret.elements[i + 1]
           /\ {ret.elements[i] : i \in 0..8}
                = {pos \in DOMAIN elements : OnPlane(arg, pos)}
           /\ arg = "Top" => \A i \in 0..8 : ret.elements[i] = i

C12_Witness ==
    /\ op = "face"
    /\ arg = "Left"
    /\ ret.elements = Array(<<0, 3, 6, 9, 12, 14, 17, 20, 23>>)

\* C14: corner_raw(pos) aborts if and only if pos > 7, row_raw(pos) and
\* column_raw(pos) abort if and only if pos > 8; the named accessors corner,
\* row, column, corners, rows, columns and face never abort.
C14_FailFast ==
    /\ op = "corner_raw" => (~ret.ok <=> arg > 7)
    /\ op \in {"row_raw", "column_raw"} => (~ret.ok <=> arg > 8)
    /\ op \in {"corner", "row", "column", "corners", "rows", "columns"} => ret.ok
    /\ op = "face" => \A i \in DOMAIN ret.elements : ret.elements[i] \in DOMAIN elements

C14_Witness ==
    /\ op = "column_raw"
    /\ arg = 9
    /\ ~ret.ok
    /\ ret.msg = "Exceeded column count"

C14_WitnessInRange ==
    /\ op = "corner_raw"
    /\ arg = 7
    /\ ret.ok

\* the concrete kind each tag of cubie! stands for
KindOfTag(tag) ==
    CASE tag = "center" -> "Center"
      [] tag = "corner" -> "Corner"
      [] tag = "edge" -> "Edge"

\* C15: cubie! yields a Center with 1 Uninit sticker for "center", a Corner
\* with 3 for "corner", an Edge with 2 for "edge", and aborts for every other
\* tag; the cubie it yields downcasts to its own concrete kind and to no
\* other.
C15_CubieMacro ==
    /\ op = "cubie!"
        => /\ ret.ok <=> arg \in {"center", "corner", "edge"}
           /\ ret.ok
                => /\ ret.val.kind = KindOfTag(arg)
                   /\ Len(ret.val.faces) = Arity(KindOfTag(arg))
                   /\ \A i \in 1..Len(ret.val.faces) :
                        ret.val.faces[i].color = "Uninit"
    /\ op = "downcast_ref"
        => /\ (ret # None) <=> (arg.target = KindOfTag(arg.tag))
           /\ ret # None => ret = Some(arg.self)

C15_Witness ==
    /\ op = "downcast_ref"
    /\ arg.tag = "edge"
    /\ arg.target = "Edge"
    /\ ret = Some([kind |-> "Edge",
                   faces |-> <<[color |-> "Uninit"], [color |-> "Uninit"]>>])

C15_WitnessAbort ==
    /\ op = "cubie!"
    /\ arg = "core"
    /\ ~ret.ok

\* C16: after Cube::new() and any sequence of accessor calls the storage
\* still has exactly 26 cubies, and every position holds the cubie kind and
\* the sticker sequence it held right after construction, all stickers
\* Uninit.
C16_StorageFrame ==
    /\ DOMAIN elements = 0..25
    /\ Cardinality(DOMAIN elements) = 26
    /\ \A i \in DOMAIN elements :
        /\ elements[i].kind = Cube_new.val.elements[i].kind
        /\ elements[i].faces = Cube_new.val.elements[i].faces
        /\ \A j \in 1..Len(elements[i].faces) : elements[i].faces[j].color = "Uninit"

C16_Witness ==
    /\ op = "rows"
    /\ ret.ok
    /\ Cardinality(DOMAIN elements) = 26
    /\ elements[0].kind = "Corner"
    /\ elements[1].kind = "Edge"

\* how many of the 9 cubies of a face view are of the given kind
KindCount(face, kind) ==
    Cardinality({i \in DOMAIN face.elements : elements[face.elements[i]].kind = kind})

\* C17: for every storage position of the cube Cube::new() builds, the
\* number of stickers of the cubie stored there is the number of face tables
\* that list the position; every face view holds 4 Corner, 4 Edge and 1
\* Center cubie.
C17_KindGeometry ==
    /\ \A pos \in DOMAIN elements :
        Len(faces(elements[pos])) = Cardinality(FacesContaining(pos))
    /\ op = "face"
        => /\ KindCount(ret, "Corner") = 4
           /\ KindCount(ret, "Edge") = 4
           /\ KindCount(ret, "Center") = 1

\* the (line, slot) pairs of a rows() / columns() result that hold pos
RowSlotsHolding(rows, pos) ==
    {<<k, "left">> : k \in {k \in DOMAIN rows : rows[k].left = pos}}
        \cup {<<k, "center">> : k \in {k \in DOMAIN rows : rows[k].center = Some(pos)}}
        \cup {<<k, "right">> : k \in {k \in DOMAIN rows : rows[k].right = pos}}

ColumnSlotsHolding(columns, pos) ==
    {<<k, "top">> : k \in {k \in DOMAIN columns : columns[k].top = pos}}
        \cup {<<k, "center">> : k \in {k \in DOMAIN columns : columns[k].center = Some(pos)}}
        \cup {<<k, "bottom">> : k \in {k \in DOMAIN columns : columns[k].bottom = pos}}

\* C18: every storage position 0..25 occurs in exactly one slot of exactly
\* one of the 9 rows, and in exactly one slot of exactly one of the 9
\* columns.
C18_ViewsPartition ==
    /\ op = "rows"
        => /\ ret.ok
           /\ \A pos \in DOMAIN elements :
                Cardinality(RowSlotsHolding(ret.val, pos)) = 1
    /\ op = "columns"
        => /\ ret.ok
           /\ \A pos \in DOMAIN elements :
                Cardinality(ColumnSlotsHolding(ret.val, pos)) = 1

\* C19: for every variant and every input, new_from_vec and
\* new_boxed_from_vec produce cubies with the same sticker sequence.
C19_BoxedAgrees ==
    /\ op = "new_from_vec"
        => ret.faces = new_from_vec(arg.variant, TRUE, arg.input).faces
    /\ op = "new_boxed_from_vec"
        => ret.faces = new_from_vec(arg.variant, FALSE, arg.input).faces

\* the slots of a row read left, centre, right
RowSlot(row, c) ==
    CASE c = 0 -> Some(row.left)
      [] c = 1 -> row.center
      [] c = 2 -> Some(row.right)

\* C20: over the 9 rows in position order, the left slots are the storage
\* positions of face(Left) in order, the right slots those of face(Right),
\* and rows 0..2 and rows 6..8 read left-centre-right are face(Top) and
\* face(Bottom).
C20_RowsAgreeWithFaces ==
    op = "rows"
        => /\ ret.ok
           /\ DOMAIN ret.val = 0..8
           /\ [k \in 0..8 |-> ret.val[k].left] = Cube_face(TheCube, "Left").elements
           /\ [k \in 0..8 |-> ret.val[k].right] = Cube_face(TheCube, "Right").elements
           /\ \A i \in 0..8 :
                /\ RowSlot(ret.val[i \div 3], i % 3)
                     = Some(Cube_face(TheCube, "Top").elements[i])
                /\ RowSlot(ret.val[6 + (i \div 3)], i % 3)
                     = Some(Cube_face(TheCube, "Bottom").elements[i])

C20_Witness ==
    /\ op = "rows"
    /\ ret.ok
    /\ ret.val[3].left = 9
    /\ ret.val[4].right = 13
    /\ ret.val[8].center = Some(24)
    /\ Cube_face(TheCube, "Left").elements[3] = 9

====
